---- MODULE Spec2Model ----
(***************************************************************************)
(* Model of the wayland_mcp stdio bridge (src/wayland_mcp.js).             *)
(*                                                                         *)
(* The bridge reads one request per line, dispatches on the tool name,     *)
(* forwards execute_task to the backend over HTTP and writes one JSON      *)
(* line per request.  The line handler is an async function: its           *)
(* synchronous part runs inside the readline 'line' event, and its         *)
(* continuations run as promise jobs (microtasks) or after network         *)
(* events.  The model follows the Node.js event loop: microtasks run      *)
(* before any further network event, while further 'line' events of the   *)
(* same input chunk are emitted before the microtasks queued by earlier    *)
(* lines of that chunk.                                                    *)
(***************************************************************************)
EXTENDS Integers, Sequences, FiniteSets, TLC

VARIABLES lines, pc, pending, mq, calls, net, reply, branch, stdout,
          auditLog, logOk, closedAt, exited

vars == <<lines, pc, pending, mq, calls, net, reply, branch, stdout,
          auditLog, logOk, closedAt, exited>>

\* Number of input lines delivered in a run.
MaxLines == 2

LineIds == 1..MaxLines

-----------------------------------------------------------------------------
(* JavaScript values and JSON texts.                                       *)
(* A JSON text is a tree whose numbers are literals (field lit); a         *)
(* JavaScript value is a tree whose numbers are IEEE doubles (field n),    *)
(* and it may be undefined.  Text that is not JSON has tag "bad".          *)

Undefined == [t |-> "undefined"]
Null == [t |-> "null"]
Num(n) == [t |-> "num", n |-> n]
Lit(l) == [t |-> "num", lit |-> l]
Str(s) == [t |-> "str", s |-> s]
Arr(e) == [t |-> "arr", e |-> e]
Obj(f) == [t |-> "obj", f |-> f]
Bad(s) == [t |-> "bad", s |-> s]
NoFields == << >>

\* A number literal read as a double: a literal beyond the double range
\* becomes Infinity.
ParseNumber(l) == IF l = "1e999" THEN "Infinity" ELSE l

RECURSIVE ParseValue(_)
ParseValue(d) ==
  CASE d.t = "num" -> Num(ParseNumber(d.lit))
    [] d.t = "arr" -> Arr([k \in DOMAIN d.e |-> ParseValue(d.e[k])])
    [] d.t = "obj" -> Obj([k \in DOMAIN d.f |-> ParseValue(d.f[k])])
    [] OTHER -> d

SyntaxErrorMessage(s) ==
  IF s = "" THEN "Unexpected end of JSON input"
  ELSE "Unexpected token in JSON at position 0"

\* JSON.parse: a value, or a SyntaxError.
JSONParse(text) ==
  IF text.t = "bad"
  THEN [ok |-> FALSE, e |-> SyntaxErrorMessage(text.s)]
  ELSE [ok |-> TRUE, v |-> ParseValue(text)]

\* JSON.stringify: undefined has no text, a non-finite number is written
\* as null, an undefined member is left out, an undefined element is null.
RECURSIVE JSONStringify(_)
JSONStringify(v) ==
  CASE v.t = "num" -> IF v.n = "Infinity" THEN Null ELSE Lit(v.n)
    [] v.t = "arr" ->
         Arr([k \in DOMAIN v.e |->
                IF v.e[k].t = "undefined" THEN Null ELSE JSONStringify(v.e[k])])
    [] v.t = "obj" ->
         Obj([k \in {m \in DOMAIN v.f : v.f[m].t # "undefined"} |->
                JSONStringify(v.f[k])])
    [] OTHER -> v

\* Property read req[k]: undefined unless req is an object that has k.
Get(v, k) ==
  IF v.t = "obj" /\ k \in DOMAIN v.f THEN v.f[k] ELSE Undefined

TemplateString_Blank(v) ==
  CASE v.t = "str" -> v.s
    [] v.t = "num" -> v.n
    [] v.t = "arr" -> IF v.e = << >> THEN "" ELSE "[array]"
    [] v.t = "obj" -> "[object Object]"
    [] OTHER -> ""

\* String conversion of a template literal `${v}`.
TemplateString(v) ==
  CASE v.t = "str" -> v.s
    [] v.t = "num" -> v.n
    [] v.t = "null" -> "null"
    [] v.t = "undefined" -> "undefined"
    [] v.t = "arr" -> IF v.e = << >> THEN "" ELSE "[array]"
    [] OTHER -> "[object Object]"

ErrorObj(m) == Obj([error |-> Str(m)])
ResultObj(d) == Obj([result |-> d])

-----------------------------------------------------------------------------
(* log                                                                      *)

\* A log message: a fixed prefix and the text interpolated after it.
Msg(p, d) == [p |-> p, d |-> d]

\* log(message): the entry is appended to wayland_mcp.log when the append
\* succeeds (ok) and is lost when it fails.
Log(ok, message) == IF ok THEN << message >> ELSE << >>

RECURSIVE LogAll(_, _)
LogAll(ok, messages) ==
  IF messages = << >> THEN << >>
  ELSE Log(ok, Head(messages)) \o LogAll(ok, Tail(messages))

LogThrows_NoCatch(ok) == ~ok

\* Whether log raises: a failed append is caught inside log and ignored.
LogThrows(ok) == FALSE

-----------------------------------------------------------------------------
(* handleRequest                                                            *)

Endpoint == "http://127.0.0.1:5000/execute"

DestructureMessage == "Cannot destructure property 'tool' of 'req' as it is null."
FetchErrorMessage ==
  "request to http://127.0.0.1:5000/execute failed, reason: connect ECONNREFUSED 127.0.0.1:5000"
InvalidJsonMessage ==
  "invalid json response body at http://127.0.0.1:5000/execute reason: Unexpected token < in JSON at position 0"

ToolAction_ForwardAll(tool) ==
  IF tool \in {Str("execute_task"), Str("capture_screenshot"),
               Str("compare_images")}
  THEN "forward" ELSE "unknown"

ToolAction_NoCase(tool) ==
  IF tool \in {Str("execute_task"), Str("Execute_Task")} THEN "forward"
  ELSE IF tool = Str("capture_screenshot") THEN "notimpl"
  ELSE IF tool = Str("compare_images") THEN "notimpl"
  ELSE "unknown"

\* The if-chain of handleRequest: strict equality on the tool name.
ToolAction(tool) ==
  IF tool = Str("execute_task") THEN "forward"
  ELSE IF tool = Str("capture_screenshot") THEN "notimpl"
  ELSE IF tool = Str("compare_images") THEN "notimpl"
  ELSE "unknown"

\* handleRequest up to its first suspension: a thrown exception (rejected
\* promise), a returned response, or a backend call that is awaited.
HandleRequest(req) ==
  IF req.t = "null"
  THEN [k |-> "throw", e |-> DestructureMessage, branch |-> "none"]
  ELSE LET tool == Get(req, "tool")
           args == Get(req, "arguments")
           act == ToolAction(tool)
       IN CASE act = "forward" ->
                 [k |-> "fetch", body |-> JSONStringify(args), branch |-> act]
            [] act = "notimpl" ->
                 [k |-> "return", res |-> ErrorObj(tool.s \o " not implemented"),
                  branch |-> act]
            [] OTHER ->
                 [k |-> "return",
                  res |-> ErrorObj("Unknown tool: " \o TemplateString(tool)),
                  branch |-> act]

\* What handleRequest logs up to its first suspension.
HandleRequestLog(req) ==
  IF req.t = "null" THEN << >>
  ELSE LET tool == Get(req, "tool")
           args == Get(req, "arguments")
           act == ToolAction(tool)
       IN << Msg("Received request: ", JSONStringify(req)) >> \o
          CASE act = "forward" ->
                 << Msg("Forwarding to Python server: ", JSONStringify(args)) >>
            [] act = "notimpl" ->
                 << Msg(tool.s \o " not implemented", Str("")) >>
            [] OTHER ->
                 << Msg("Unknown tool: " \o TemplateString(tool), Str("")) >>

HandleRequestCatchLog(e) == << Msg("Error handling request: ", Str(e)) >>

HandleRequestReplyLog(data) ==
  << Msg("Response from Python server: ", JSONStringify(data)) >>

HandleRequestCatch_Both(e) ==
  [k |-> "return", res |-> Obj([result |-> Null, error |-> Str(e)])]

HandleRequestCatch_Generic(e) ==
  [k |-> "return", res |-> ErrorObj("Internal error")]

\* The catch clause of handleRequest.
HandleRequestCatch(e) == [k |-> "return", res |-> ErrorObj(e)]

HandleRequestReply_CheckStatus(status, data) ==
  IF status = 200 THEN [k |-> "return", res |-> ResultObj(data)]
  ELSE [k |-> "return", res |-> ErrorObj("HTTP error")]

\* handleRequest after response.json() resolved with data; the status of
\* the response is never looked at.
HandleRequestReply(status, data) == [k |-> "return", res |-> ResultObj(data)]

-----------------------------------------------------------------------------
(* The 'line' handler of main                                               *)

\* try branch: the response is serialised and written.
OnLineTry(res) == << JSONStringify(res) >>

OnLineCatch_SkipEmpty(e) ==
  IF e = "Unexpected end of JSON input" THEN << >>
  ELSE << JSONStringify(ErrorObj(e)) >>

\* catch branch: an error response is written.
OnLineCatch(e) == << JSONStringify(ErrorObj(e)) >>

Respond_DropThrow(p) == IF p.k = "throw" THEN << >> ELSE OnLineTry(p.res)

\* The handler resumed with the settled promise of handleRequest.
Respond(p) == IF p.k = "throw" THEN OnLineCatch(p.e) ELSE OnLineTry(p.res)

Tag(i, texts) == [k \in DOMAIN texts |-> [line |-> i, text |-> texts[k]]]

\* What the handler logs before it writes: the response on the try path,
\* the error (not the line written) on the catch path.
RespondLog(p) ==
  IF p.k = "throw" THEN << Msg("Error processing MCP line: ", Str(p.e)) >>
  ELSE << Msg("Sending MCP response: ", JSONStringify(p.res)) >>

\* process.stdout.write after a log call: reached unless log raised.
Written(ok, i, texts) == IF LogThrows(ok) THEN << >> ELSE Tag(i, texts)

-----------------------------------------------------------------------------
(* Inputs                                                                   *)

ArgsAB == Obj([a |-> Lit("1"), b |-> Str("x")])
ArgsHuge == Obj([a |-> Lit("1e999")])

SampleLines ==
  { Bad(""),
    Bad("not json"),
    Null,
    Lit("42"),
    Str("execute_task"),
    Arr(<< >>),
    Obj(NoFields),
    Obj([tool |-> Str("")]),
    Obj([tool |-> Str("execute_task"), arguments |-> ArgsAB]),
    Obj([tool |-> Str("execute_task"), arguments |-> ArgsHuge]),
    Obj([tool |-> Str("Execute_Task"), arguments |-> ArgsAB]),
    Obj([tool |-> Str("capture_screenshot"), arguments |-> Obj(NoFields)]),
    Obj([tool |-> Str("compare_images"), arguments |-> ArgsAB]),
    Obj([tool |-> Str("foo"), arguments |-> Obj(NoFields)]) }

\* One input line for each path of the handler: decode failure, fault in
\* handleRequest, forwarded, not implemented, unknown tool.
PathLines ==
  { Bad(""),
    Null,
    Obj([tool |-> Str("execute_task"), arguments |-> ArgsAB]),
    Obj([tool |-> Str("compare_images"), arguments |-> ArgsAB]),
    Obj([tool |-> Str("foo"), arguments |-> Obj(NoFields)]) }

Statuses == {200, 500}

NoReply == [status |-> 0, body |-> Undefined]

\* Bodies of a backend reply to the call of line i: an echo of the request
\* body, a plain result, an application-level error, or text that is not JSON.
CallsOf(i) == {calls[k] : k \in {m \in DOMAIN calls : calls[m].line = i}}

ReplyBodies(i) ==
  { Obj([status |-> Str("ok")]),
    Obj([error |-> Str("task failed")]),
    Lit("1e999"),
    Bad("<html>") }
  \cup {c.body : c \in {d \in CallsOf(i) : d.body.t # "undefined"}}

-----------------------------------------------------------------------------
(* State machine                                                            *)

Init ==
  /\ lines = << >>
  /\ pc = [i \in LineIds |-> "unread"]
  /\ pending = [i \in LineIds |-> Undefined]
  /\ mq = << >>
  /\ calls = << >>
  /\ net = [i \in LineIds |-> "none"]
  /\ reply = [i \in LineIds |-> NoReply]
  /\ branch = [i \in LineIds |-> "none"]
  /\ stdout = << >>
  /\ auditLog = << >>
  /\ logOk = TRUE
  /\ closedAt = -1
  /\ exited = FALSE

\* Whether the input stream has ended.
closed == closedAt >= 0

\* The synchronous part of the 'line' handler for line l, the i-th line.
OnLine(i, l) ==
  LET pr == JSONParse(l)
      received == << Msg("Received MCP line: ", l) >>
  IN /\ lines' = Append(lines, l)
     /\ IF ~pr.ok
        THEN /\ auditLog' = auditLog \o
                  LogAll(logOk, received \o RespondLog([k |-> "throw", e |-> pr.e]))
             /\ stdout' = stdout \o Written(logOk, i, OnLineCatch(pr.e))
             /\ pc' = [pc EXCEPT ![i] = "done"]
             /\ UNCHANGED <<pending, mq, calls, net, branch>>
        ELSE LET h == HandleRequest(pr.v)
             IN /\ auditLog' = auditLog \o
                     LogAll(logOk, received \o HandleRequestLog(pr.v))
                /\ branch' = [branch EXCEPT ![i] = h.branch]
                /\ IF h.k = "fetch"
                   THEN /\ calls' = Append(calls,
                              [line |-> i, url |-> Endpoint, body |-> h.body])
                        /\ net' = [net EXCEPT ![i] = "open"]
                        /\ pc' = [pc EXCEPT ![i] = "fetch"]
                        /\ UNCHANGED <<pending, mq>>
                   ELSE /\ pending' = [pending EXCEPT ![i] = h]
                        /\ mq' = Append(mq, i)
                        /\ pc' = [pc EXCEPT ![i] = "await"]
                        /\ UNCHANGED <<calls, net>>
                /\ UNCHANGED stdout
     /\ UNCHANGED <<reply, logOk, closedAt, exited>>

LineEvent_Serial(l) ==
  /\ Len(lines) < MaxLines /\ ~closed
  /\ \A j \in LineIds : pc[j] \notin {"fetch", "json"}
  /\ OnLine(Len(lines) + 1, l)

\* rl.on("line"): readline emits the next line of the open input stream.
LineEvent(l) ==
  /\ Len(lines) < MaxLines /\ ~closed
  /\ OnLine(Len(lines) + 1, l)

RunMicrotask_Shared ==
  /\ mq # << >>
  /\ LET i == Head(mq)
         p == pending[mq[Len(mq)]]
     IN /\ auditLog' = auditLog \o LogAll(logOk, RespondLog(p))
        /\ stdout' = stdout \o Written(logOk, i, Respond(p))
        /\ pc' = [pc EXCEPT ![i] = "done"]
        /\ mq' = Tail(mq)
  /\ UNCHANGED <<lines, pending, calls, net, reply, branch, logOk, closedAt, exited>>

\* A promise job: the handler at the head of the microtask queue resumes
\* after `await handleRequest(req)` and writes its response.
RunMicrotask ==
  /\ mq # << >>
  /\ LET i == Head(mq)
     IN /\ auditLog' = auditLog \o LogAll(logOk, RespondLog(pending[i]))
        /\ stdout' = stdout \o Written(logOk, i, Respond(pending[i]))
        /\ pc' = [pc EXCEPT ![i] = "done"]
        /\ mq' = Tail(mq)
  /\ UNCHANGED <<lines, pending, calls, net, reply, branch, logOk, closedAt, exited>>

\* fetch resolves with the response head; handleRequest goes on to
\* response.json().
FetchResolve(i, status) ==
  /\ pc[i] = "fetch" /\ net[i] = "open" /\ mq = << >>
  /\ pc' = [pc EXCEPT ![i] = "json"]
  /\ reply' = [reply EXCEPT ![i].status = status]
  /\ UNCHANGED <<lines, pending, mq, calls, net, branch, stdout,
                 auditLog, logOk, closedAt, exited>>

FetchReject_Retry(i) ==
  /\ pc[i] = "fetch" /\ net[i] = "open" /\ mq = << >>
  /\ Len(calls) < 2 * MaxLines
  /\ calls' = Append(calls, CHOOSE c \in CallsOf(i) : TRUE)
  /\ auditLog' = auditLog \o LogAll(logOk, HandleRequestCatchLog(FetchErrorMessage))
  /\ UNCHANGED <<lines, pc, pending, mq, net, reply, branch, stdout,
                 logOk, closedAt, exited>>

\* fetch rejects (connection refused): caught in handleRequest, and the
\* handler writes the error response.
FetchReject(i) ==
  /\ pc[i] = "fetch" /\ net[i] = "open" /\ mq = << >>
  /\ LET p == HandleRequestCatch(FetchErrorMessage)
     IN /\ auditLog' = auditLog \o
             LogAll(logOk, HandleRequestCatchLog(FetchErrorMessage) \o RespondLog(p))
        /\ stdout' = stdout \o Written(logOk, i, Respond(p))
  /\ pc' = [pc EXCEPT ![i] = "done"]
  /\ net' = [net EXCEPT ![i] = "refused"]
  /\ UNCHANGED <<lines, pending, mq, calls, reply, branch, logOk, closedAt, exited>>

\* response.json() settles: the body has arrived and is parsed.
BodyArrives(i, text) ==
  /\ pc[i] = "json" /\ net[i] = "open" /\ mq = << >>
  /\ LET pr == JSONParse(text)
         p == IF pr.ok THEN HandleRequestReply(reply[i].status, pr.v)
              ELSE HandleRequestCatch(InvalidJsonMessage)
         logged == IF pr.ok THEN HandleRequestReplyLog(pr.v)
                   ELSE HandleRequestCatchLog(InvalidJsonMessage)
     IN /\ auditLog' = auditLog \o LogAll(logOk, logged \o RespondLog(p))
        /\ stdout' = stdout \o Written(logOk, i, Respond(p))
  /\ reply' = [reply EXCEPT ![i].body = text]
  /\ pc' = [pc EXCEPT ![i] = "done"]
  /\ net' = [net EXCEPT ![i] = "closed"]
  /\ UNCHANGED <<lines, pending, mq, calls, branch, logOk, closedAt, exited>>

\* The backend holds the connection open and never answers.
BackendStall(i) ==
  /\ pc[i] \in {"fetch", "json"} /\ net[i] = "open"
  /\ net' = [net EXCEPT ![i] = "stalled"]
  /\ UNCHANGED <<lines, pc, pending, mq, calls, reply, branch, stdout,
                 auditLog, logOk, closedAt, exited>>

\* wayland_mcp.log stops or starts being appendable (disk full, permissions).
LogFault ==
  /\ ~exited
  /\ logOk' = ~logOk
  /\ UNCHANGED <<lines, pc, pending, mq, calls, net, reply, branch, stdout,
                 auditLog, closedAt, exited>>

\* The input stream ends: readline emits no further line.  closedAt keeps
\* the number of output lines written before the end of the input.
InputClose ==
  /\ ~closed
  /\ closedAt' = Len(stdout)
  /\ UNCHANGED <<lines, pc, pending, mq, calls, net, reply, branch, stdout,
                 auditLog, logOk, exited>>

Exit_OnClose ==
  /\ closed /\ ~exited
  /\ exited' = TRUE
  /\ UNCHANGED <<lines, pc, pending, mq, calls, net, reply, branch, stdout,
                 auditLog, logOk, closedAt>>

\* The process ends when nothing keeps the event loop alive: the input is
\* closed, no promise job is queued and no backend call is outstanding.
Exit ==
  /\ closed /\ ~exited
  /\ mq = << >>
  /\ \A i \in LineIds : pc[i] \notin {"fetch", "json"}
  /\ exited' = TRUE
  /\ UNCHANGED <<lines, pc, pending, mq, calls, net, reply, branch, stdout,
                 auditLog, logOk, closedAt>>

Next ==
  \/ \E l \in SampleLines : LineEvent(l)
  \/ RunMicrotask
  \/ \E i \in LineIds, s \in Statuses : FetchResolve(i, s)
  \/ \E i \in LineIds : FetchReject(i)
  \/ \E i \in LineIds : \E text \in ReplyBodies(i) : BodyArrives(i, text)
  \/ \E i \in LineIds : BackendStall(i)

\* Runs in which the input stream stays open and the log file is writable.
Spec == Init /\ [][Next]_vars

\* The steps of the handlers other than the arrival of a line.
HandlerStep ==
  \/ RunMicrotask
  \/ \E i \in LineIds, s \in Statuses : FetchResolve(i, s)
  \/ \E i \in LineIds : FetchReject(i)
  \/ \E i \in LineIds : \E text \in ReplyBodies(i) : BodyArrives(i, text)
  \/ \E i \in LineIds : BackendStall(i)

\* Runs in which appends to the log file may fail, over one input line for
\* each path of the handler.
NextLog ==
  \/ \E l \in PathLines : LineEvent(l)
  \/ HandlerStep
  \/ LogFault

LogSpec == Init /\ [][NextLog]_vars

\* Runs in which the input stream may end, over the same input lines.
NextClose ==
  \/ \E l \in PathLines : LineEvent(l)
  \/ HandlerStep
  \/ InputClose
  \/ Exit

CloseSpec == Init /\ [][NextClose]_vars

\* The event loop runs every queued promise job, and a backend that has not
\* stalled answers; input arrival and a stall are up to the environment.
FairSpec ==
  /\ Spec
  /\ WF_vars(RunMicrotask)
  /\ \A i \in LineIds :
       /\ WF_vars(FetchReject(i) \/ \E s \in Statuses : FetchResolve(i, s))
       /\ WF_vars(\E text \in ReplyBodies(i) : BodyArrives(i, text))

-----------------------------------------------------------------------------
(* Properties                                                               *)

Read(i) == i <= Len(lines)
OutputsOf(i) == {k \in DOMAIN stdout : stdout[k].line = i}
NumOut(i) == Cardinality(OutputsOf(i))
OutputOf(i) == stdout[CHOOSE k \in OutputsOf(i) : TRUE].text
IsError(text, m) == text = Obj([error |-> Str(m)])
CanRead == ENABLED (\E l \in SampleLines : LineEvent(l))

\* C1: every input line gets exactly one output line: never two, and
\* exactly one once its handling has finished (whether it was a valid
\* request, malformed or empty, and whatever its backend call did).
C1_OneOutputPerLine ==
  /\ \A i \in LineIds : NumOut(i) <= 1
  /\ \A i \in LineIds : pc[i] = "done" <=> NumOut(i) = 1
  /\ \A k \in DOMAIN stdout : Read(stdout[k].line)

C1_Witness ==
  /\ Len(lines) = 2
  /\ lines[1].t = "bad" /\ pc[1] = "done" /\ NumOut(1) = 1
  /\ net[2] = "closed" /\ reply[2].body.t = "bad" /\ NumOut(2) = 1

\* C2: output lines are written in the order of their input lines, even
\* when a later line needs no backend call or its call completes first.
C2_OutputOrder ==
  \A a, b \in DOMAIN stdout : a < b => stdout[a].line < stdout[b].line

\* C3: every forwarded execute_task request eventually produces its output
\* line, even if the backend accepts the connection and never replies.
C3_EventuallyAnswered ==
  \A i \in LineIds : (pc[i] = "fetch") ~> (pc[i] = "done")

\* C4: a failed backend call (connection refused, unparseable body) yields
\* one output line {error: <message of the transport exception>} and the
\* bridge keeps reading later lines.
C4_BackendFailure ==
  \A i \in LineIds :
    /\ net[i] = "refused" =>
         /\ pc[i] = "done" /\ NumOut(i) = 1
         /\ IsError(OutputOf(i), FetchErrorMessage)
    /\ (net[i] = "closed" /\ reply[i].body.t = "bad") =>
         /\ pc[i] = "done" /\ NumOut(i) = 1
         /\ IsError(OutputOf(i), InvalidJsonMessage)
    /\ (net[i] \in {"refused", "closed"} /\ Len(lines) < MaxLines) => CanRead

C4_Witness ==
  /\ Len(stdout) = 2
  /\ net[1] = "refused" /\ stdout[1].line = 1
  /\ lines[2].t = "bad" /\ stdout[2].line = 2

\* The tool name of input line i, when the line is a JSON object whose tool
\* member is a string.
HasToolName(i) ==
  /\ Read(i) /\ lines[i].t = "obj"
  /\ "tool" \in DOMAIN lines[i].f /\ lines[i].f.tool.t = "str"
ToolName(i) == lines[i].f.tool.s
IsExecuteTask(i) == HasToolName(i) /\ ToolName(i) = "execute_task"
HasArgs(i) == "arguments" \in DOMAIN lines[i].f

\* C5: the body sent to the backend is exactly the argument map of the
\* request, an echoing backend yields {result: A}, and the value under
\* result is the reply body unmodified.
C5_RoundTrip ==
  \A i \in LineIds :
    (IsExecuteTask(i) /\ HasArgs(i)) =>
      /\ \A c \in CallsOf(i) : c.body = lines[i].f.arguments
      /\ (pc[i] = "done" /\ net[i] = "closed" /\ reply[i].body.t # "bad") =>
           OutputOf(i) = Obj([result |-> reply[i].body])

\* C6: any parseable backend reply yields {result: <body>}, whatever the
\* status of the reply and even when the body encodes an error.
C6_ParseableReplyIsSuccess ==
  \A i \in LineIds :
    (net[i] = "closed" /\ reply[i].body.t # "bad") =>
      /\ NumOut(i) = 1
      /\ OutputOf(i).t = "obj" /\ DOMAIN OutputOf(i).f = {"result"}
      /\ OutputOf(i).f.result = JSONStringify(ParseValue(reply[i].body))

C6_Witness ==
  \E i \in LineIds :
    /\ net[i] = "closed" /\ reply[i].status = 500
    /\ reply[i].body = Obj([error |-> Str("task failed")])
    /\ OutputOf(i) = Obj([result |-> Obj([error |-> Str("task failed")])])

\* C7: a request whose tool name is not exactly execute_task,
\* capture_screenshot or compare_images gets {error: "Unknown tool: <name>"}
\* with the name verbatim, and no backend call is issued for it.
C7_UnknownTool ==
  \A i \in LineIds :
    (HasToolName(i) /\ ToolName(i) \notin
        {"execute_task", "capture_screenshot", "compare_images"}) =>
      /\ CallsOf(i) = {} /\ net[i] = "none" /\ pc[i] \in {"await", "done"}
      /\ pc[i] = "done" =>
           /\ NumOut(i) = 1
           /\ IsError(OutputOf(i), "Unknown tool: " \o ToolName(i))

C7_Witness ==
  \E i \in LineIds :
    /\ HasToolName(i) /\ ToolName(i) = "Execute_Task" /\ pc[i] = "done"
    /\ IsError(OutputOf(i), "Unknown tool: Execute_Task")

NotImplemented(i) ==
  HasToolName(i) /\ ToolName(i) \in {"capture_screenshot", "compare_images"}

\* C8: a request for capture_screenshot or compare_images gets
\* {error: "<name> not implemented"}, and no step of its handling changes
\* the backend calls issued, whatever else is in flight.
C8_NotImplemented ==
  /\ [](\A i \in LineIds :
          NotImplemented(i) =>
            /\ CallsOf(i) = {} /\ net[i] = "none"
            /\ pc[i] = "done" =>
                 /\ NumOut(i) = 1
                 /\ IsError(OutputOf(i), ToolName(i) \o " not implemented"))
  /\ [][\A i \in LineIds :
          (NotImplemented(i)' /\ pc[i]' # pc[i]) => calls' = calls]_vars

C8_Witness ==
  /\ Len(lines) = 2
  /\ pc[1] = "fetch" /\ Len(calls) = 1
  /\ NotImplemented(2) /\ ToolName(2) = "compare_images" /\ pc[2] = "done"
  /\ IsError(OutputOf(2), "compare_images not implemented")

\* C9: an empty line or a line that is not well-formed gets exactly one
\* {error: ...} line, without dispatch or backend call, and the bridge
\* keeps reading later lines.
C9_DecodeFailure ==
  \A i \in LineIds :
    (Read(i) /\ lines[i].t = "bad") =>
      /\ pc[i] = "done" /\ NumOut(i) = 1
      /\ OutputOf(i).t = "obj" /\ DOMAIN OutputOf(i).f = {"error"}
      /\ branch[i] = "none" /\ CallsOf(i) = {} /\ net[i] = "none"
      /\ Len(lines) < MaxLines => CanRead

C9_Witness ==
  /\ Len(lines) = 2 /\ Len(stdout) = 2
  /\ lines[1] = Bad("") /\ stdout[1].line = 1
  /\ IsError(stdout[1].text, "Unexpected end of JSON input")
  /\ pc[2] = "done" /\ lines[2].t # "bad"

MissingTool(i) ==
  /\ Read(i) /\ lines[i].t = "obj"
  /\ "tool" \notin DOMAIN lines[i].f \/ lines[i].f.tool = Str("")

C11_NoRetry ==
  /\ Len(calls) = Cardinality({i \in LineIds : IsExecuteTask(i)})
  /\ \A k \in DOMAIN calls :
       /\ calls[k].url = Endpoint
       /\ IsExecuteTask(calls[k].line)
       /\ \A m \in DOMAIN calls : calls[m].line = calls[k].line => m = k

C11_Witness ==
  /\ Len(lines) = 2 /\ Len(calls) = 1
  /\ IsExecuteTask(1) /\ net[1] = "refused" /\ pc[1] = "done"
  /\ ~IsExecuteTask(2) /\ pc[2] = "done"

\* C12: for every input line, on every path, the audit log holds the raw
\* input line and the exact output line written for it.
C12_AuditRecord ==
  \A i \in LineIds :
    (pc[i] = "done" /\ NumOut(i) = 1) =>
      /\ \E a \in DOMAIN auditLog : auditLog[a].d = lines[i]
      /\ \E b \in DOMAIN auditLog : auditLog[b].d = OutputOf(i)

\* The output line of input line l whose backend call ended as n with
\* reply r, as the caller is told to expect it.
ExpectedOutput(l, n, r) ==
  IF l.t = "bad" THEN ErrorObj(SyntaxErrorMessage(l.s))
  ELSE IF l.t = "null" THEN ErrorObj(DestructureMessage)
  ELSE IF l.t # "obj" \/ "tool" \notin DOMAIN l.f
       THEN ErrorObj("Unknown tool: undefined")
  ELSE IF l.f.tool = Str("execute_task")
       THEN IF n = "refused" THEN ErrorObj(FetchErrorMessage)
            ELSE IF r.body.t = "bad" THEN ErrorObj(InvalidJsonMessage)
            ELSE Obj([result |-> JSONStringify(ParseValue(r.body))])
  ELSE IF l.f.tool \in {Str("capture_screenshot"), Str("compare_images")}
       THEN ErrorObj(l.f.tool.s \o " not implemented")
  ELSE ErrorObj("Unknown tool: " \o l.f.tool.s)

\* C13: when appends to the audit log fail, every line is still answered
\* exactly once, with the output it gets when the log works.
C13_LogBestEffort ==
  \A i \in LineIds :
    /\ NumOut(i) <= 1
    /\ pc[i] = "done" =>
         /\ NumOut(i) = 1
         /\ OutputOf(i) = ExpectedOutput(lines[i], net[i], reply[i])

C13_Witness ==
  /\ Len(lines) = 2 /\ auditLog = << >> /\ ~logOk
  /\ lines[1].t = "bad" /\ NumOut(1) = 1
  /\ IsExecuteTask(2) /\ net[2] = "closed" /\ NumOut(2) = 1

InFlight(i) == pc[i] \in {"fetch", "json"}

\* C14: only a backend call suspends a line: with calls outstanding the
\* next line can still be read and a queued handler can still resume, and
\* a line that is neither unread nor answered waits for its backend call or
\* for its promise job.
C14_OnlyBackendSuspends ==
  /\ ((\E i \in LineIds : InFlight(i)) /\ Len(lines) < MaxLines) => CanRead
  /\ mq # << >> => ENABLED RunMicrotask
  /\ \A i \in LineIds :
       /\ InFlight(i) => net[i] \in {"open", "stalled"}
       /\ pc[i] = "await" => \E k \in DOMAIN mq : mq[k] = i

C14_Witness ==
  /\ pc[1] = "json" /\ net[1] = "open"
  /\ pc[2] = "fetch" /\ net[2] = "open"
  /\ Len(calls) = 2

\* C15: the output of a line is determined by that line and the outcome of
\* its own backend call, and a waiting handler holds the response of its
\* own request.
C15_Isolation ==
  /\ \A k \in DOMAIN stdout :
       LET i == stdout[k].line
       IN stdout[k].text = ExpectedOutput(lines[i], net[i], reply[i])
  /\ \A i \in LineIds :
       pc[i] = "await" =>
         /\ pending[i].k = "return" =>
              JSONStringify(pending[i].res) = ExpectedOutput(lines[i], net[i], reply[i])
         /\ pending[i].k = "throw" =>
              ErrorObj(pending[i].e) = ExpectedOutput(lines[i], net[i], reply[i])

C15_Witness ==
  /\ Len(stdout) = 2 /\ stdout[1].line = 2 /\ stdout[2].line = 1
  /\ IsExecuteTask(1) /\ IsExecuteTask(2)
  /\ reply[1].body = Obj([status |-> Str("ok")])
  /\ reply[2].body = Obj([error |-> Str("task failed")])
  /\ stdout[1].text = Obj([result |-> reply[2].body])
  /\ stdout[2].text = Obj([result |-> reply[1].body])

\* C16: every output line is an object with exactly one key: result, only
\* for an execute_task request whose reply was parsed, or error with a
\* message string.
C16_OutputShape ==
  \A k \in DOMAIN stdout :
    LET text == stdout[k].text
        i == stdout[k].line
    IN /\ text.t = "obj"
       /\ DOMAIN text.f \in {{"result"}, {"error"}}
       /\ DOMAIN text.f = {"result"} =>
            IsExecuteTask(i) /\ net[i] = "closed" /\ reply[i].body.t # "bad"
       /\ DOMAIN text.f = {"error"} => text.f.error.t = "str"

C16_Witness ==
  /\ Len(stdout) = 2
  /\ DOMAIN stdout[1].text.f = {"result"}
  /\ DOMAIN stdout[2].text.f = {"error"} /\ net[stdout[2].line] = "refused"

\* C17: a line that parses to null, a number, a string or an array gets
\* exactly one {error: ...} line and no backend call: null through the
\* handler's catch, the others through the unknown-tool branch.
C17_NonObjectRequest ==
  \A i \in LineIds :
    (Read(i) /\ lines[i].t \in {"null", "num", "str", "arr"}) =>
      /\ CallsOf(i) = {} /\ net[i] = "none" /\ NumOut(i) <= 1
      /\ branch[i] = (IF lines[i].t = "null" THEN "none" ELSE "unknown")
      /\ pc[i] = "done" =>
           /\ NumOut(i) = 1
           /\ IsError(OutputOf(i),
                      IF lines[i].t = "null" THEN DestructureMessage
                      ELSE "Unknown tool: undefined")

C17_Witness ==
  /\ Len(lines) = 2
  /\ lines[1] = Null /\ pc[1] = "done"
  /\ IsError(OutputOf(1), DestructureMessage)
  /\ lines[2] = Str("execute_task") /\ pc[2] = "done"
  /\ IsError(OutputOf(2), "Unknown tool: undefined")

AllAnswered == \A i \in LineIds : Read(i) => (pc[i] = "done" /\ NumOut(i) = 1)

\* C18: after the input stream ends no new request is dispatched, the lines
\* read before still get their output when their backend call settles, and
\* the bridge terminates then and only then.
C18_CleanEnd ==
  /\ [](exited => (closed /\ AllAnswered))
  /\ []((closed /\ ~exited /\ AllAnswered) => ENABLED Exit)
  /\ []((closed /\ mq # << >>) => ENABLED RunMicrotask)
  /\ [](\A i \in LineIds :
          (closed /\ mq = << >> /\ pc[i] = "fetch" /\ net[i] = "open") =>
            ENABLED FetchReject(i))
  /\ [][closed => (lines' = lines /\ calls' = calls)]_vars

C18_Witness ==
  /\ exited /\ Len(lines) = 2
  /\ closedAt = 0 /\ Len(stdout) = 2
  /\ net[1] = "closed" /\ net[2] = "refused"

====
